---- MODULE Spec2Model ----
(***************************************************************************)
(* Model of kafka-filter-pypi/entrypoint.py: the PyPIFilter pipeline       *)
(* (seeding, consume, dedup store), the release extractor (_extract) and   *)
(* the requirement compressor (_parse_requires / add_range).               *)
(*                                                                         *)
(* Python strings that the code orders or concatenates (specifier          *)
(* versions, interval expressions) are sequences of one-character strings, *)
(* compared by code point as Python's str comparison does.  Strings that   *)
(* the code only tests for equality (product names, release versions) are  *)
(* TLA+ strings.  None and empty containers are the empty sequence, which  *)
(* is falsy exactly as in Python.                                          *)
(***************************************************************************)
EXTENDS Integers, Sequences, FiniteSets, TLC

VARIABLES
    \* ---- PyPIFilter object and main loop
    check_old,    \* self.check_old
    packages,     \* self.packages: dict product -> set of versions
    phase,        \* position of main(): new, seeding, ready, consuming, sleeping, crashed
    sent,         \* entries handed to producer.send without error, in order
    seeded,       \* (product, version) pairs put in the store by _fill_old
    nrec,         \* number of inbound messages taken so far
    last,         \* what happened to the last inbound message
    \* ---- one run of the _extract generator
    exPackage,    \* the package argument
    exReleases,   \* the releases list being iterated ( <<>> before the prologue)
    exRequires,   \* requires_dist after _parse_requires
    exIdx,        \* index of the next release to examine
    exOut,        \* entries yielded so far
    exStatus,     \* start, running, returned, raised
    \* ---- one run of the specifier loop of _parse_requires
    specs,        \* req.specs as given
    todo,         \* sorted(specs, ...) not yet processed
    begin,        \* pending lower bound: <<>> or <<val, inclusive>>
    end,          \* pending upper bound: <<>> or <<val, inclusive>>
    constraints,  \* interval expressions appended so far
    cpc           \* sort, loop, done

pvars == <<check_old, packages, phase, sent, seeded, nrec, last>>
evars == <<exPackage, exReleases, exRequires, exIdx, exOut, exStatus>>
cvars == <<specs, todo, begin, end, constraints, cpc>>
vars == <<check_old, packages, phase, sent, seeded, nrec, last,
          exPackage, exReleases, exRequires, exIdx, exOut, exStatus,
          specs, todo, begin, end, constraints, cpc>>

----------------------------------------------------------------------------
\* Bounds

MaxMinor == 10      \* specifier versions are 1.(MaxMinor-2) .. 1.MaxMinor
MaxSpecs == 3       \* specifiers per requirement
MaxReleases == 2    \* releases per package record
MaxSubs == 3        \* sub-releases per release
MaxK == 1           \* upload times lie 1.5 s apart, -MaxK .. MaxK steps from the epoch
MaxRecords == 2     \* inbound messages per run of the model

----------------------------------------------------------------------------
\* Generic helpers

None == <<>>

Truthy(x) == x # <<>>

SeqsUpTo(S, n) == UNION { [1..k -> S] : k \in 0..n }

Injective(s) == \A i, j \in DOMAIN s : s[i] = s[j] => i = j

----------------------------------------------------------------------------
\* Python str: code points and comparison

Ord(c) ==
    CASE c = "(" -> 40 [] c = ")" -> 41 [] c = "." -> 46
      [] c = "0" -> 48 [] c = "1" -> 49 [] c = "2" -> 50 [] c = "3" -> 51
      [] c = "4" -> 52 [] c = "5" -> 53 [] c = "6" -> 54 [] c = "7" -> 55
      [] c = "8" -> 56 [] c = "9" -> 57 [] c = "[" -> 91 [] c = "]" -> 93

\* a < b for str: first differing code point decides, a proper prefix is smaller
RECURSIVE StrLess(_, _)
StrLess(a, b) ==
    IF b = <<>> THEN FALSE
    ELSE IF a = <<>> THEN TRUE
    ELSE IF Head(a) # Head(b) THEN Ord(Head(a)) < Ord(Head(b))
    ELSE StrLess(Tail(a), Tail(b))

Digit(d) == CASE d = 0 -> "0" [] d = 1 -> "1" [] d = 2 -> "2" [] d = 3 -> "3"
              [] d = 4 -> "4" [] d = 5 -> "5" [] d = 6 -> "6" [] d = 7 -> "7"
              [] d = 8 -> "8" [] d = 9 -> "9"

RECURSIVE Decimal(_)
Decimal(n) == IF n < 10 THEN <<Digit(n)>> ELSE Decimal(n \div 10) \o <<Digit(n % 10)>>

\* the version string "major.minor"
VersionStr(major, minor) == Decimal(major) \o <<".">> \o Decimal(minor)

----------------------------------------------------------------------------
\* _parse_requires: the specifier loop and add_range

Ops == {"==", ">", ">=", "<", "<=", "!="}

SpecVersions == { VersionStr(1, m) : m \in (MaxMinor - 2)..MaxMinor }

\* an element of req.specs: <<operator, version string>>
SpecPairs == Ops \X SpecVersions

\* req.specs lists each specifier of the requirement once, in no particular order
SpecLists == { s \in SeqsUpTo(SpecPairs, MaxSpecs) : Injective(s) }

\* sorted(specs, key=lambda x: x[1]): x[1] is the version string, so the keys
\* compare as str; the sort is stable
RECURSIVE InsertByKey(_, _)
InsertByKey(x, s) ==
    IF s = <<>> THEN <<x>>
    ELSE IF StrLess(x[2], Head(s)[2]) THEN <<x>> \o s
    ELSE <<Head(s)>> \o InsertByKey(x, Tail(s))

RECURSIVE Sorted(_)
Sorted(s) ==
    IF s = <<>> THEN <<>>
    ELSE InsertByKey(s[Len(s)], Sorted(SubSeq(s, 1, Len(s) - 1)))

\* the f-strings of add_range and of the == branch
Point(val) == <<"[">> \o val \o <<"]">>

Interval(open, a, b, close) == <<open>> \o a \o <<".", ".">> \o b \o <<close>>

\* variant: a lone lower bound is rendered with "[" whatever its flag
add_range_LoseFlag(cs, b, e) ==
    IF Truthy(b) /\ Truthy(e) THEN
        IF b[2] /\ e[2] THEN Append(cs, Interval("[", b[1], e[1], "]"))
        ELSE IF b[2] THEN Append(cs, Interval("[", b[1], e[1], ")"))
        ELSE IF e[2] THEN Append(cs, Interval("(", b[1], e[1], "]"))
        ELSE Append(cs, Interval("(", b[1], e[1], ")"))
    ELSE IF Truthy(b) THEN Append(cs, Interval("[", b[1], <<>>, "]"))
    ELSE IF Truthy(e) THEN
        IF e[2] THEN Append(cs, Interval("[", <<>>, e[1], "]"))
        ELSE Append(cs, Interval("[", <<>>, e[1], ")"))
    ELSE cs

\* add_range(begin, end): the constraints list after the call
add_range(cs, b, e) ==
    IF Truthy(b) /\ Truthy(e) THEN
        IF b[2] /\ e[2] THEN Append(cs, Interval("[", b[1], e[1], "]"))
        ELSE IF b[2] THEN Append(cs, Interval("[", b[1], e[1], ")"))
        ELSE IF e[2] THEN Append(cs, Interval("(", b[1], e[1], "]"))
        ELSE Append(cs, Interval("(", b[1], e[1], ")"))
    ELSE IF Truthy(b) THEN
        IF b[2] THEN Append(cs, Interval("[", b[1], <<>>, "]"))
        ELSE Append(cs, Interval("(", b[1], <<>>, "]"))
    ELSE IF Truthy(e) THEN
        IF e[2] THEN Append(cs, Interval("[", <<>>, e[1], "]"))
        ELSE Append(cs, Interval("[", <<>>, e[1], ")"))
    ELSE cs

\* variant: the point is appended whether or not a lower bound is pending
EqBranch_AlwaysPoint(st, val) ==
    LET flush == Truthy(st.begin) /\ Truthy(st.end)
        cs1 == IF flush THEN add_range(st.constraints, st.begin, st.end)
               ELSE st.constraints
    IN  [begin |-> IF flush THEN None ELSE st.begin,
         end |-> IF flush THEN None ELSE st.end,
         constraints |-> Append(cs1, Point(val))]

\* the == branch
EqBranch(st, val) ==
    LET flush == Truthy(st.begin) /\ Truthy(st.end)
        cs1 == IF flush THEN add_range(st.constraints, st.begin, st.end)
               ELSE st.constraints
        b1 == IF flush THEN None ELSE st.begin
        e1 == IF flush THEN None ELSE st.end
    IN  [begin |-> b1, end |-> e1,
         constraints |-> IF ~Truthy(b1) THEN Append(cs1, Point(val)) ELSE cs1]

\* variant: a later lower bound replaces the pending one
LowerBranch_LastWins(st, val, inclusive) ==
    LET flush == Truthy(st.end)
        cs1 == IF flush THEN add_range(st.constraints, st.begin, st.end)
               ELSE st.constraints
    IN  [begin |-> <<val, inclusive>>,
         end |-> IF flush THEN None ELSE st.end, constraints |-> cs1]

\* variant: a pending upper bound is not flushed before a lower bound is taken
LowerBranch_NoFlush(st, val, inclusive) ==
    [st EXCEPT !.begin = IF ~Truthy(st.begin) THEN <<val, inclusive>> ELSE st.begin]

\* the > and >= branches
LowerBranch(st, val, inclusive) ==
    LET flush == Truthy(st.end)
        cs1 == IF flush THEN add_range(st.constraints, st.begin, st.end)
               ELSE st.constraints
        b1 == IF flush THEN None ELSE st.begin
        e1 == IF flush THEN None ELSE st.end
    IN  [begin |-> IF ~Truthy(b1) THEN <<val, inclusive>> ELSE b1,
         end |-> e1, constraints |-> cs1]

\* the < and <= branches
UpperBranch(st, val, inclusive) == [st EXCEPT !.end = <<val, inclusive>>]

\* one iteration of "for key, val in sorted(...)"; an operator that matches
\* none of the ifs leaves everything as it is
LoopBody(st, key, val) ==
    CASE key = "==" -> EqBranch(st, val)
      [] key = ">"  -> LowerBranch(st, val, FALSE)
      [] key = ">=" -> LowerBranch(st, val, TRUE)
      [] key = "<"  -> UpperBranch(st, val, FALSE)
      [] key = "<=" -> UpperBranch(st, val, TRUE)
      [] OTHER -> st

RECURSIVE RunLoop(_, _)
RunLoop(st, ss) ==
    IF ss = <<>> THEN st ELSE RunLoop(LoopBody(st, Head(ss)[1], Head(ss)[2]), Tail(ss))

\* the constraints list _parse_requires builds for one requirement
Compress(sp) ==
    LET st == RunLoop([begin |-> None, end |-> None, constraints |-> <<>>], Sorted(sp))
    IN  add_range(st.constraints, st.begin, st.end)

CompressIdle ==
    /\ specs = <<>> /\ todo = <<>> /\ begin = None /\ end = None
    /\ constraints = <<>> /\ cpc = "idle"

CInit ==
    /\ specs \in SpecLists
    /\ todo = <<>> /\ begin = None /\ end = None /\ constraints = <<>>
    /\ cpc = "sort"

\* line 155-157: begin = end = None, the specs are sorted
CSort ==
    /\ cpc = "sort"
    /\ todo' = Sorted(specs)
    /\ begin' = None /\ end' = None
    /\ cpc' = "loop"
    /\ UNCHANGED <<specs, constraints>>

\* lines 157-185: one iteration of the loop
CStep ==
    /\ cpc = "loop" /\ todo # <<>>
    /\ LET st == LoopBody([begin |-> begin, end |-> end, constraints |-> constraints],
                          Head(todo)[1], Head(todo)[2])
       IN  /\ begin' = st.begin
           /\ end' = st.end
           /\ constraints' = st.constraints
    /\ todo' = Tail(todo)
    /\ UNCHANGED <<specs, cpc>>

\* line 186: the final add_range
CFinish ==
    /\ cpc = "loop" /\ todo = <<>>
    /\ constraints' = add_range(constraints, begin, end)
    /\ cpc' = "done"
    /\ UNCHANGED <<specs, todo, begin, end>>


\* variant: a requirement that does not parse is left out instead of raising
RECURSIVE ParseAll_SkipBad(_, _)
ParseAll_SkipBad(requires, parsed) ==
    IF requires = <<>> THEN [raised |-> FALSE, parsed |-> parsed]
    ELSE LET r == Head(requires) IN
         IF ~r.ok THEN ParseAll_SkipBad(Tail(requires), parsed)
         ELSE ParseAll_SkipBad(Tail(requires),
                               Append(parsed, [forge |-> "PyPI", product |-> r.name,
                                               constraints |-> <<>>]))

\* Requirement.parse(r): a raw requirement either parses to a name and specs
\* or raises.  A raw requirement is [ok, name, specs].
RECURSIVE ParseAll(_, _)
ParseAll(requires, parsed) ==
    IF requires = <<>> THEN [raised |-> FALSE, parsed |-> parsed]
    ELSE LET r == Head(requires) IN
         IF ~r.ok THEN [raised |-> TRUE, parsed |-> parsed]
         ELSE ParseAll(Tail(requires),
                       Append(parsed, [forge |-> "PyPI", product |-> r.name,
                                       constraints |-> Compress(r.specs)]))

\* _parse_requires(requires): the parsed list, or raised
_parse_requires(requires) == ParseAll(requires, <<>>)

----------------------------------------------------------------------------
\* _extract

\* ts = float("inf") or an int
Inf == [inf |-> TRUE, v |-> 0]

Num(n) == [inf |-> FALSE, v |-> n]

\* variant: the comparison turned round, which keeps the largest timestamp
TsLess_Greater(n, ts) == ts.inf \/ n > ts.v

\* candts < ts
TsLess(n, ts) == ts.inf \/ n < ts.v

\* An upload_time field is absent or empty (k = "none"), a string isoparse
\* rejects (k = "bad"), or an ISO-8601 time t half-seconds from the epoch
NoTime == [k |-> "none", t |-> 0]

BadTime == [k |-> "bad", t |-> 0]

IsoTime(t) == [k |-> "iso", t |-> t]

\* int(dateutil.parser.isoparse(s).timestamp()): int() truncates toward zero
IntTimestamp(u) == IF u.t >= 0 THEN u.t \div 2 ELSE -((-u.t) \div 2)

\* lines 105-111: the scan of release["releases"]; isoparse raises on the
\* first present upload_time it cannot parse
RECURSIVE ScanTimes(_, _)
ScanTimes(rs, ts) ==
    IF rs = <<>> THEN [raised |-> FALSE, ts |-> ts]
    ELSE LET r == Head(rs) IN
         IF r.k = "none" THEN ScanTimes(Tail(rs), ts)
         ELSE IF r.k = "bad" THEN [raised |-> TRUE, ts |-> ts]
         ELSE LET candts == IntTimestamp(r)
              IN  ScanTimes(Tail(rs), IF TsLess(candts, ts) THEN Num(candts) ELSE ts)

\* variant: the check "ts == float('inf')" left out
ReleaseOutcome_NoInfCheck(pkg_name, requires_dist, release) ==
    IF release.version = "" \/ release.releases = <<>> THEN [kind |-> "skip"]
    ELSE LET scan == ScanTimes(release.releases, Inf) IN
         IF scan.raised THEN [kind |-> "raise"]
         ELSE [kind |-> "yield",
               entry |-> [product |-> pkg_name,
                          version |-> release.version,
                          version_timestamp |-> scan.ts,
                          requires_dist |-> requires_dist]]

\* lines 97-123: one iteration of "for release in releases".  A release is
\* [version, releases]; version "" and releases <<>> stand for absent or empty
\* fields, which release.get(...) treats alike.
ReleaseOutcome(pkg_name, requires_dist, release) ==
    IF release.version = "" \/ release.releases = <<>> THEN [kind |-> "skip"]
    ELSE LET scan == ScanTimes(release.releases, Inf) IN
         IF scan.raised THEN [kind |-> "raise"]
         ELSE IF scan.ts = Inf THEN [kind |-> "skip"]
         ELSE [kind |-> "yield",
               entry |-> [product |-> pkg_name,
                          version |-> release.version,
                          version_timestamp |-> scan.ts,
                          requires_dist |-> requires_dist]]

\* lines 87-95: the lookups and _parse_requires.  A package is a function on
\* those of the keys title, name, requires_dist, releases that it has.
PackageKeys == {"name", "requires_dist", "releases"}

\* variant: the KeyError is not caught
Prologue_NoCatch(package) ==
    IF ~(PackageKeys \subseteq DOMAIN package) THEN [kind |-> "raise"]
    ELSE LET p == _parse_requires(package["requires_dist"]) IN
         IF p.raised THEN [kind |-> "raise"]
         ELSE [kind |-> "run", requires_dist |-> p.parsed]

Prologue(package) ==
    IF ~(PackageKeys \subseteq DOMAIN package) THEN [kind |-> "return"]
    ELSE LET p == _parse_requires(package["requires_dist"]) IN
         IF p.raised THEN [kind |-> "raise"]
         ELSE [kind |-> "run", requires_dist |-> p.parsed]

RECURSIVE ExtractLoop(_, _, _, _)
ExtractLoop(pkg_name, requires_dist, releases, out) ==
    IF releases = <<>> THEN [out |-> out, raised |-> FALSE]
    ELSE LET o == ReleaseOutcome(pkg_name, requires_dist, Head(releases)) IN
         IF o.kind = "raise" THEN [out |-> out, raised |-> TRUE]
         ELSE ExtractLoop(pkg_name, requires_dist, Tail(releases),
                          IF o.kind = "yield" THEN Append(out, o.entry) ELSE out)

\* everything the generator _extract(package) yields, and whether it ends by
\* raising
_extract(package) ==
    LET pro == Prologue(package) IN
    IF pro.kind = "return" THEN [out |-> <<>>, raised |-> FALSE]
    ELSE IF pro.kind = "raise" THEN [out |-> <<>>, raised |-> TRUE]
    ELSE ExtractLoop(package["name"], pro.requires_dist, package["releases"], <<>>)

\* ---- inputs
UploadTimes == {NoTime, BadTime} \cup { IsoTime(3 * k) : k \in (-MaxK)..MaxK }

ReleasesOf(versions, maxSubs) ==
    { [version |-> v, releases |-> rs] :
        v \in versions \cup {""}, rs \in SeqsUpTo(UploadTimes, maxSubs) }

GoodReq ==
    [ok |-> TRUE, name |-> "dep",
     specs |-> << <<">=", VersionStr(1, MaxMinor - 1)>>, <<"<", VersionStr(1, MaxMinor)>> >>]

BadReq == [ok |-> FALSE, name |-> "", specs |-> <<>>]

RequiresLists == {<<>>, <<GoodReq>>, <<BadReq>>, <<GoodReq, BadReq>>}

MakePackage(keys, name, requires, releases) ==
    [k \in keys |->
        CASE k = "title" -> name
          [] k = "name" -> name
          [] k = "requires_dist" -> requires
          [] k = "releases" -> releases]

AllKeys == PackageKeys \cup {"title"}

\* packages for a run of the generator alone: one release with up to MaxSubs
\* sub-releases, up to MaxReleases releases with at most one sub-release each,
\* and every requires_dist and missing key with short releases lists
ExtractInputs ==
    { MakePackage(AllKeys, "foo", <<>>, <<r>>) : r \in ReleasesOf({"1.0.0"}, MaxSubs) }
    \cup
    { MakePackage(AllKeys, "foo", <<>>, rl) :
        rl \in SeqsUpTo(ReleasesOf({"1.0.0", "1.1.0"}, 1), MaxReleases) }
    \cup
    { MakePackage(ks, "foo", rq, rl) :
        ks \in { AllKeys \ d : d \in {{}, {"name"}, {"requires_dist"}, {"releases"}} },
        rq \in RequiresLists,
        rl \in SeqsUpTo(ReleasesOf({"1.0.0"}, 1), 1) }

ExtractIdle ==
    /\ exPackage = <<>> /\ exReleases = <<>> /\ exRequires = <<>>
    /\ exIdx = 0 /\ exOut = <<>> /\ exStatus = "idle"

EInit ==
    /\ exPackage \in ExtractInputs
    /\ exReleases = <<>> /\ exRequires = <<>>
    /\ exIdx = 0 /\ exOut = <<>> /\ exStatus = "start"

\* lines 87-95, first resumption of the generator
EStart ==
    /\ exStatus = "start"
    /\ LET pro == Prologue(exPackage) IN
       /\ exStatus' = CASE pro.kind = "return" -> "returned"
                        [] pro.kind = "raise" -> "raised"
                        [] OTHER -> "running"
       /\ exRequires' = IF pro.kind = "run" THEN pro.requires_dist ELSE <<>>
       /\ exReleases' = IF pro.kind = "run" THEN exPackage["releases"] ELSE <<>>
    /\ exIdx' = 1
    /\ UNCHANGED <<exPackage, exOut>>

\* lines 96-123: the generator examines the next release
ERelease ==
    /\ exStatus = "running" /\ exIdx <= Len(exReleases)
    /\ LET o == ReleaseOutcome(exPackage["name"], exRequires, exReleases[exIdx]) IN
       /\ exOut' = IF o.kind = "yield" THEN Append(exOut, o.entry) ELSE exOut
       /\ exStatus' = IF o.kind = "raise" THEN "raised" ELSE "running"
    /\ exIdx' = exIdx + 1
    /\ UNCHANGED <<exPackage, exReleases, exRequires>>

\* the releases are exhausted: the generator returns
EEnd ==
    /\ exStatus = "running" /\ exIdx > Len(exReleases)
    /\ exStatus' = "returned"
    /\ UNCHANGED <<exPackage, exReleases, exRequires, exIdx, exOut>>


----------------------------------------------------------------------------
\* PyPIFilter: dedup store, seeding, consume

Products == {"foo", "bar"}

Versions == {"1.0.0", "1.1.0"}

EmptyDict == [p \in {} |-> {}]

\* the (product, version) pairs a packages dict holds
PairsOf(pkgs) ==
    { pv \in Products \X Versions : pv[1] \in DOMAIN pkgs /\ pv[2] \in pkgs[pv[1]] }

PairOf(entry) == <<entry.product, entry.version>>

\* variant: only the product key is looked up
_exists_KeyOnly(pkgs, entry) == entry.product \in DOMAIN pkgs

\* lines 43-48
_exists(pkgs, entry) ==
    IF ~(entry.product \in DOMAIN pkgs) THEN FALSE
    ELSE IF ~(entry.version \in pkgs[entry.product]) THEN FALSE
    ELSE TRUE

\* variant: the set is created but the version is not added
_store_NoAdd(pkgs, entry) ==
    IF ~(entry.product \in DOMAIN pkgs)
    THEN [p \in DOMAIN pkgs \cup {entry.product} |->
             IF p = entry.product THEN {} ELSE pkgs[p]]
    ELSE pkgs

\* variant: the product's set is replaced instead of extended
_store_Replace(pkgs, entry) ==
    [p \in DOMAIN pkgs \cup {entry.product} |->
        IF p = entry.product THEN {entry.version} ELSE pkgs[p]]

\* lines 50-53: the dict after the call
_store(pkgs, entry) ==
    LET withKey == IF ~(entry.product \in DOMAIN pkgs)
                   THEN [p \in DOMAIN pkgs \cup {entry.product} |->
                            IF p = entry.product THEN {} ELSE pkgs[p]]
                   ELSE pkgs
    IN  [withKey EXCEPT ![entry.product] = @ \cup {entry.version}]

\* lines 33-38 over the entries the generator yields, in order.  fail = k > 0
\* makes the k-th call of produce raise out of producer.send, which ends the
\* loop; fail = 0 lets every send succeed.
RECURSIVE ConsumeLoop(_, _, _, _, _)
ConsumeLoop(pkgs, entries, forwarded, pulled, fail) ==
    IF entries = <<>> THEN
        [packages |-> pkgs, forwarded |-> forwarded, pulled |-> pulled, failed |-> FALSE]
    ELSE LET entry == Head(entries) IN
         IF ~_exists(pkgs, entry) THEN
             IF Len(forwarded) + 1 = fail THEN
                 [packages |-> _store(pkgs, entry), forwarded |-> forwarded,
                  pulled |-> Append(pulled, entry), failed |-> TRUE]
             ELSE ConsumeLoop(_store(pkgs, entry), Tail(entries),
                              Append(forwarded, entry), Append(pulled, entry), fail)
         ELSE ConsumeLoop(pkgs, Tail(entries), forwarded, Append(pulled, entry), fail)

\* ---- inputs
\* messages of the output topic that _fill_old replays
OldMessages ==
    { [product |-> p, version |-> v, version_timestamp |-> Num(0), requires_dist |-> <<>>] :
        p \in Products, v \in Versions }

PipeReleases ==
    { [version |-> v, releases |-> <<IsoTime(0)>>] : v \in Versions }
    \cup { [version |-> "1.0.0", releases |-> <<u>>] : u \in {NoTime, BadTime} }

\* inbound messages: every releases list for one product with all keys
\* present, and the other product, the missing keys and the failing
\* requirements with short releases lists
PipeInputs ==
    { MakePackage(AllKeys, "foo", <<>>, rl) : rl \in SeqsUpTo(PipeReleases, MaxReleases) }
    \cup
    { MakePackage(AllKeys, "bar", <<>>, rl) : rl \in SeqsUpTo(PipeReleases, 1) }
    \cup
    { MakePackage(ks, "foo", rq, rl) :
        ks \in { AllKeys \ d : d \in {{}, {"title"}, {"name"}, {"requires_dist"}, {"releases"}} },
        rq \in {<<>>, <<BadReq>>, <<GoodReq, BadReq>>},
        rl \in SeqsUpTo({ r \in PipeReleases : r.version = "1.0.0" }, 1) }

\* the record has a requires_dist with a requirement Requirement.parse rejects
HasBadRequirement(package) ==
    /\ "requires_dist" \in DOMAIN package
    /\ \E i \in DOMAIN package["requires_dist"] : ~package["requires_dist"][i].ok

\* the note kept of the last inbound message: how its handling ended, the
\* entries pulled from the generator, the keys the record had, whether one of
\* its requirements was unparseable, and how many records so far lacked one
\* of the keys _extract looks up
Note(status, yielded, package) ==
    [status |-> status, yielded |-> yielded, keys |-> DOMAIN package,
     badreq |-> HasBadRequirement(package),
     skipped |-> last.skipped +
                 (IF "title" \in DOMAIN package /\ ~(PackageKeys \subseteq DOMAIN package)
                  THEN 1 ELSE 0)]

NoMessage ==
    [status |-> "none", yielded |-> <<>>, keys |-> AllKeys, badreq |-> FALSE, skipped |-> 0]

PInit ==
    /\ check_old \in BOOLEAN
    /\ packages = EmptyDict
    /\ phase = "new"
    /\ sent = <<>>
    /\ seeded = {}
    /\ nrec = 0
    /\ last = NoMessage

\* lines 12-21 up to the call of _fill_old
Construct ==
    /\ phase = "new"
    /\ packages' = EmptyDict
    /\ phase' = IF check_old THEN "seeding" ELSE "ready"
    /\ UNCHANGED <<check_old, sent, seeded, nrec, last>>

\* lines 81-84: one message of the output topic
FillOldMessage ==
    /\ phase = "seeding"
    /\ \E pkg \in OldMessages :
        /\ packages' = IF ~_exists(packages, pkg) THEN _store(packages, pkg) ELSE packages
        /\ seeded' = seeded \cup {PairOf(pkg)}
    /\ UNCHANGED <<check_old, phase, sent, nrec, last>>

\* the consumer of _fill_old times out: __init__ returns
FillOldDone ==
    /\ phase = "seeding"
    /\ phase' = "ready"
    /\ UNCHANGED <<check_old, packages, sent, seeded, nrec, last>>

\* line 250 and line 24: main calls consume, which sets up Kafka
ConsumeBegin ==
    /\ phase = "ready"
    /\ phase' = "consuming"
    /\ UNCHANGED <<check_old, packages, sent, seeded, nrec, last>>

\* lines 26-38: one inbound message
ConsumeMessage ==
    /\ phase = "consuming" /\ nrec < MaxRecords
    /\ nrec' = nrec + 1
    /\ \E package \in PipeInputs :
        IF ~("title" \in DOMAIN package) THEN
            \* package["title"] raises KeyError
            /\ phase' = "crashed"
            /\ last' = Note("notitle", <<>>, package)
            /\ UNCHANGED <<packages, sent>>
        ELSE
            LET ex == _extract(package) IN
            \E fail \in 0..Len(ex.out) :
                LET run == ConsumeLoop(packages, ex.out, <<>>, <<>>, fail) IN
                /\ fail > 0 => run.failed
                /\ packages' = run.packages
                /\ sent' = sent \o run.forwarded
                /\ last' = Note(IF run.failed THEN "sendfail"
                                 ELSE IF ex.raised THEN "raised" ELSE "ok",
                                 run.pulled, package)
                /\ phase' = IF run.failed \/ ex.raised THEN "crashed" ELSE "consuming"
    /\ UNCHANGED <<check_old, seeded>>

\* variant: the store is seeded again whenever consume returns
ConsumeReturn_Reseed ==
    /\ phase = "consuming"
    /\ phase' = IF check_old THEN "seeding" ELSE "ready"
    /\ UNCHANGED <<check_old, packages, sent, seeded, nrec, last>>

\* the message iterator ends: consume returns, main sleeps and loops
ConsumeReturn ==
    /\ phase = "consuming"
    /\ phase' = "ready"
    /\ UNCHANGED <<check_old, packages, sent, seeded, nrec, last>>

----------------------------------------------------------------------------
\* Specifications

\* the filter process
Init == PInit /\ ExtractIdle /\ CompressIdle

Next ==
    \/ Construct /\ UNCHANGED <<evars, cvars>>
    \/ FillOldMessage /\ UNCHANGED <<evars, cvars>>
    \/ FillOldDone /\ UNCHANGED <<evars, cvars>>
    \/ ConsumeBegin /\ UNCHANGED <<evars, cvars>>
    \/ ConsumeMessage /\ UNCHANGED <<evars, cvars>>
    \/ ConsumeReturn /\ UNCHANGED <<evars, cvars>>

Spec == Init /\ [][Next]_vars

\* one run of the _extract generator
InitExtract ==
    /\ EInit /\ CompressIdle
    /\ check_old = FALSE /\ packages = EmptyDict /\ phase = "idle" /\ sent = <<>>
    /\ seeded = {} /\ nrec = 0 /\ last = NoMessage

NextExtract ==
    \/ EStart /\ UNCHANGED <<pvars, cvars>>
    \/ ERelease /\ UNCHANGED <<pvars, cvars>>
    \/ EEnd /\ UNCHANGED <<pvars, cvars>>

SpecExtract == InitExtract /\ [][NextExtract]_vars

\* one run of the specifier loop of _parse_requires
InitCompress ==
    /\ CInit /\ ExtractIdle
    /\ check_old = FALSE /\ packages = EmptyDict /\ phase = "idle" /\ sent = <<>>
    /\ seeded = {} /\ nrec = 0 /\ last = NoMessage

NextCompress ==
    \/ CSort /\ UNCHANGED <<pvars, evars>>
    \/ CStep /\ UNCHANGED <<pvars, evars>>
    \/ CFinish /\ UNCHANGED <<pvars, evars>>

SpecCompress == InitCompress /\ [][NextCompress]_vars

----------------------------------------------------------------------------
\* Version precedence, for stating the properties

DigitVal(c) == Ord(c) - Ord("0")

\* the dotted components of a version string as numbers
RECURSIVE Components(_, _, _)
Components(s, acc, cur) ==
    IF s = <<>> THEN Append(acc, cur)
    ELSE IF Head(s) = "." THEN Components(Tail(s), Append(acc, cur), 0)
    ELSE Components(Tail(s), acc, 10 * cur + DigitVal(Head(s)))

RECURSIVE TupleLess(_, _)
TupleLess(a, b) ==
    IF b = <<>> THEN FALSE
    ELSE IF a = <<>> THEN TRUE
    ELSE IF Head(a) # Head(b) THEN Head(a) < Head(b)
    ELSE TupleLess(Tail(a), Tail(b))

\* a precedes b as a version: 1.9 before 1.10
VersionLess(a, b) == TupleLess(Components(a, <<>>, 0), Components(b, <<>>, 0))

RECURSIVE InsertByVersion(_, _)
InsertByVersion(x, s) ==
    IF s = <<>> THEN <<x>>
    ELSE IF VersionLess(x[2], Head(s)[2]) THEN <<x>> \o s
    ELSE <<Head(s)>> \o InsertByVersion(x, Tail(s))

\* the pairs in version precedence order, equal versions in their given order
RECURSIVE SortedByVersion(_)
SortedByVersion(s) ==
    IF s = <<>> THEN <<>>
    ELSE InsertByVersion(s[Len(s)], SortedByVersion(SubSeq(s, 1, Len(s) - 1)))

Orderings(s) ==
    { [i \in DOMAIN s |-> s[f[i]]] :
        f \in { g \in [DOMAIN s -> DOMAIN s] : \A i, j \in DOMAIN s : g[i] = g[j] => i = j } }

IsLower(op) == op \in {">", ">="}

IsUpper(op) == op \in {"<", "<="}

\* the single interval expression the specification gives for one specifier
SingleExpected(op, v) ==
    CASE op = "==" -> Point(v)
      [] op = ">=" -> Interval("[", v, <<>>, "]")
      [] op = ">"  -> Interval("(", v, <<>>, "]")
      [] op = "<=" -> Interval("[", <<>>, v, "]")
      [] op = "<"  -> Interval("[", <<>>, v, ")")

\* ... and for a lower bound lo and an upper bound up
PairExpected(lo, up) ==
    Interval(IF lo[1] = ">=" THEN "[" ELSE "(", lo[2], up[2], IF up[1] = "<=" THEN "]" ELSE ")")

----------------------------------------------------------------------------
\* Properties of the specifier loop (SpecCompress)

\* C4: a single specifier, or a lower bound at a with an upper bound at b
\* where a is below b, is compressed to exactly one interval expression with
\* the brackets of its operators.  Fails: the sort compares the version
\* strings, so 1.10 is taken before 1.9 and the pair is split in two.
C4_SingleOrPairOneExpression ==
    cpc = "done" =>
        /\ (Len(specs) = 1 /\ specs[1][1] # "!=")
              => constraints = <<SingleExpected(specs[1][1], specs[1][2])>>
        /\ Len(specs) = 2 =>
              \A i, j \in 1..2 :
                 (IsLower(specs[i][1]) /\ IsUpper(specs[j][1])
                    /\ VersionLess(specs[i][2], specs[j][2]))
                 => constraints = <<PairExpected(specs[i], specs[j])>>

\* C5: == specifiers at pairwise distinct versions give one point each, in
\* ascending version order whatever the order they were given in.  Fails for
\* the same reason as C6.
C5_PointsAscending ==
    (cpc = "done" /\ \A i \in DOMAIN specs : specs[i][1] = "==")
        => constraints = [i \in DOMAIN specs |-> Point(SortedByVersion(specs)[i][2])]

\* C6: the loop processes the pairs in version precedence order (1.9 before
\* 1.10), pairs with equal versions in their original relative order.
C6_SortedByVersionPrecedence ==
    (cpc = "loop" /\ Len(todo) = Len(specs)) => todo = SortedByVersion(specs)

\* C7: every ordering of the same pairs is compressed to the same sequence of
\* interval expressions.  Fails when two operators share a version: they are
\* processed in the order given.
C7_OrderIndependent ==
    cpc = "done" => \A q \in Orderings(specs) : Compress(q) = constraints

----------------------------------------------------------------------------
\* Properties of the _extract generator (SpecExtract)

SetMin(S) == CHOOSE m \in S : \A x \in S : m <= x

\* the sub-releases of a release that carry an upload_time
Timed(release) == { i \in DOMAIN release.releases : release.releases[i].k # "none" }

AllMissing(release) == release.releases # <<>> /\ Timed(release) = {}

\* the releases the generator has examined so far
Examined == SubSeq(exReleases, 1, exIdx - 1)

\* C8: the entry yielded for a release carries the minimum of the unix-second
\* values of the upload times of its sub-releases, whatever their order;
\* sub-releases without upload_time do not count.
C8_TimestampIsMinimum ==
    [][Len(exOut') = Len(exOut) + 1 =>
          LET release == exReleases[exIdx]
              entry == exOut'[Len(exOut')]
          IN  /\ entry.version = release.version
              /\ entry.version_timestamp =
                    Num(SetMin({ IntTimestamp(release.releases[i]) : i \in Timed(release) }))
      ]_vars

\* a release with two different upload times, the later one first, and a
\* sub-release without upload_time has been yielded
C8_Witness ==
    /\ exStatus = "returned" /\ Len(exReleases) = 1 /\ Len(exOut) = 1
    /\ LET rs == exReleases[1].releases IN
       /\ Len(rs) = 3
       /\ rs[1].k = "iso" /\ rs[2].k = "iso" /\ rs[3].k = "none"
       /\ IntTimestamp(rs[2]) < IntTimestamp(rs[1])
       /\ exOut[1].version_timestamp = Num(IntTimestamp(rs[2]))

\* C9: no yielded entry carries the infinity sentinel; a release whose
\* sub-releases all lack upload_time yields nothing and does not end the
\* iteration: what has been yielded is what the other releases examined
\* yield, and the generator has not stopped at such a release.
C9_FiniteTimestampSkipOnly ==
    exStatus \in {"running", "returned", "raised"} /\ Prologue(exPackage).kind = "run" =>
        /\ \A i \in DOMAIN exOut : exOut[i].version_timestamp # Inf
        /\ exOut = ExtractLoop(exPackage["name"], exRequires,
                               SelectSeq(Examined, LAMBDA r : ~AllMissing(r)), <<>>).out
        /\ \A i \in DOMAIN Examined :
              AllMissing(Examined[i]) =>
                  /\ exStatus = "raised" => i < Len(Examined)
                  /\ exStatus = "returned" => Len(Examined) = Len(exReleases)

\* the first release has only sub-releases without upload_time, the second
\* one has been yielded
C9_Witness ==
    /\ exStatus = "returned" /\ Len(exReleases) = 2
    /\ AllMissing(exReleases[1])
    /\ Len(exOut) = 1
    /\ exOut[1].version_timestamp # Inf

\* the release without the sub-releases whose upload_time does not parse
Parseable(release) ==
    [release EXCEPT !.releases = SelectSeq(release.releases, LAMBDA u : u.k # "bad")]

\* C10: a sub-release whose upload_time does not parse raises nothing out of
\* _extract and is only left out of the minimum.  Fails: isoparse raises and
\* nothing catches it.
C10_UnparseableOnlyExcluded ==
    (exStatus \in {"running", "returned", "raised"} /\ Prologue(exPackage).kind = "run") =>
        /\ exStatus # "raised"
        /\ exOut = ExtractLoop(exPackage["name"], exRequires,
                               [i \in DOMAIN Examined |-> Parseable(Examined[i])], <<>>).out

----------------------------------------------------------------------------
\* Properties of the filter process (Spec)

\* the entries of ys that a store holding the pairs in have lets through:
\* those whose pair is not in have and has not come earlier in ys
RECURSIVE Novel(_, _)
Novel(have, ys) ==
    IF ys = <<>> THEN <<>>
    ELSE IF PairOf(Head(ys)) \in have THEN Novel(have, Tail(ys))
    ELSE <<Head(ys)>> \o Novel(have \cup {PairOf(Head(ys))}, Tail(ys))

\* what a step appends to sent
NewlySent == SubSeq(sent', Len(sent) + 1, Len(sent'))

\* C1: over all inbound records and all consume() calls on one PyPIFilter
\* each (product, version) pair is forwarded at most once, and a pair that
\* is in the store when a record is taken up is not forwarded.
C1_ForwardedAtMostOnce ==
    /\ [](\A i, j \in DOMAIN sent : PairOf(sent[i]) = PairOf(sent[j]) => i = j)
    /\ [][\A i \in DOMAIN NewlySent : PairOf(NewlySent[i]) \notin PairsOf(packages)]_vars

\* the first record forwarded two pairs; the second record yielded the first
\* of them twice more and nothing was forwarded again
C1_Witness ==
    /\ Len(sent) = 2 /\ nrec = 2 /\ last.status = "ok"
    /\ Len(last.yielded) = 2
    /\ PairOf(last.yielded[1]) = PairOf(sent[1])
    /\ PairOf(last.yielded[2]) = PairOf(sent[1])

\* C2: a record processed to its end forwards exactly the yielded entries whose
\* pair was not in the store, each once, in the order yielded, and none whose
\* pair was seeded by _fill_old.
C2_ForwardsExactlyNovel ==
    [][(nrec' = nrec + 1 /\ last'.status \in {"ok", "raised"}) =>
          /\ NewlySent = Novel(PairsOf(packages), last'.yielded)
          /\ \A i \in DOMAIN NewlySent : PairOf(NewlySent[i]) \notin seeded
      ]_vars

\* the store was seeded with foo -> {1.0.0}; a record yielded foo 1.0.0 and
\* foo 1.1.0 and exactly foo 1.1.0 has been forwarded
C2_Witness ==
    /\ check_old /\ seeded = {<<"foo", "1.0.0">>}
    /\ nrec = 1 /\ last.status = "ok"
    /\ Len(last.yielded) = 2
    /\ PairOf(last.yielded[1]) = <<"foo", "1.0.0">>
    /\ PairOf(last.yielded[2]) = <<"foo", "1.1.0">>
    /\ Len(sent) = 1 /\ PairOf(sent[1]) = <<"foo", "1.1.0">>

\* C3: _exists(E) is true iff the store holds E's version under E's product;
\* after one or two _store(E) calls in any reachable store _exists(E) is true,
\* the second call changes nothing, E's version is counted once in its set
\* and every other pair is in the store iff it was before.
C3_ExistsAndStoreIdempotent ==
    \A E \in OldMessages :
        LET once == _store(packages, E)
            twice == _store(once, E)
            before == IF E.product \in DOMAIN packages THEN packages[E.product] ELSE {}
        IN  /\ _exists(packages, E) <=> PairOf(E) \in PairsOf(packages)
            /\ _exists(once, E) /\ _exists(twice, E)
            /\ twice = once
            /\ Cardinality(once[E.product]) = Cardinality(before \ {E.version}) + 1
            /\ \A O \in OldMessages :
                  PairOf(O) # PairOf(E) => (_exists(once, O) <=> _exists(packages, O))
            /\ DOMAIN once = DOMAIN packages \cup {E.product}

\* _store has run for two versions of one product and for another product
C3_Witness ==
    /\ DOMAIN packages = Products
    /\ packages["foo"] = Versions
    /\ packages["bar"] = {"1.0.0"}
    /\ Len(sent) >= 1

C12_UnsupportedOperatorFails ==
    (\E i \in DOMAIN specs : specs[i][1] \notin {"==", ">", ">=", "<", "<="}) => cpc # "done"

\* C13 as stated: a record with a requirement that does not parse makes the
\* extraction fail before anything is yielded, stored or forwarded.  Fails for
\* a record that also lacks one of the keys: the KeyError is handled first and
\* the generator returns without parsing anything.
C13_BadRequirementFailsCall ==
    [][(nrec' = nrec + 1 /\ "title" \in last'.keys /\ last'.badreq) =>
          /\ last'.status = "raised" /\ last'.yielded = <<>>
          /\ packages' = packages /\ sent' = sent
      ]_vars

\* C13 amended: for a record that has name, requires_dist and releases, a
\* requirement that does not parse makes the extraction fail before anything
\* is yielded; nothing is stored or forwarded and the error leaves consume.
C13_BadRequirementFailsWellFormed ==
    [][(nrec' = nrec + 1 /\ "title" \in last'.keys /\ last'.badreq
          /\ PackageKeys \subseteq last'.keys) =>
          /\ last'.status = "raised" /\ last'.yielded = <<>>
          /\ packages' = packages /\ sent' = sent
          /\ phase' = "crashed"
      ]_vars

\* after a first record was stored and forwarded, a complete record with an
\* unparseable requirement failed and left the store as it was
C13_Witness ==
    /\ nrec = 2 /\ last.badreq /\ PackageKeys \subseteq last.keys
    /\ last.status = "raised" /\ phase = "crashed"
    /\ Len(sent) = 1 /\ PairsOf(packages) = {PairOf(sent[1])}

----------------------------------------------------------------------------
\* Reading interval expressions back, for stating the properties

\* the index of the first ".." in s, 0 if there is none
FirstDotDot(s) ==
    LET at == { k \in 1..(Len(s) - 1) : s[k] = "." /\ s[k + 1] = "." }
    IN  IF at = {} THEN 0 ELSE CHOOSE k \in at : \A j \in at : k <= j

\* the bounds an interval expression denotes: a point [v] is both bounds at
\* v; a missing side is None
ParseExpr(e) ==
    LET body == SubSeq(e, 2, Len(e) - 1)
        k == FirstDotDot(body)
        a == SubSeq(body, 1, k - 1)
        b == SubSeq(body, k + 2, Len(body))
    IN  IF k = 0
        THEN [kind |-> "point", begin |-> <<body, TRUE>>, end |-> <<body, TRUE>>]
        ELSE [kind |-> "range",
              begin |-> IF a = <<>> THEN None ELSE <<a, e[1] = "[">>,
              end |-> IF b = <<>> THEN None ELSE <<b, e[Len(e)] = "]">>]

\* what a step appends to constraints
NewExprs == SubSeq(constraints', Len(constraints) + 1, Len(constraints'))

PendingRange == [kind |-> "range", begin |-> begin, end |-> end]

PointAt(val) == [kind |-> "point", begin |-> <<val, TRUE>>, end |-> <<val, TRUE>>]

\* C14: every interval expression the loop appends reads back to exactly the
\* bounds and inclusive flags (or the == version) it was rendered from, so no
\* two different combinations are rendered to the same string.
C14_RenderingReadsBack ==
    [][/\ Len(NewExprs) <= 2
       /\ Len(NewExprs) = 2 =>
             /\ ParseExpr(NewExprs[1]) = PendingRange
             /\ ParseExpr(NewExprs[2]) = PointAt(Head(todo)[2])
       /\ Len(NewExprs) = 1 =>
             ParseExpr(NewExprs[1]) =
                 IF todo # <<>> /\ Head(todo)[1] = "==" THEN PointAt(Head(todo)[2])
                 ELSE PendingRange
      ]_vars

\* a run has produced a point, a lone upper bound and a lone exclusive lower
\* bound
C14_Witness ==
    /\ cpc = "done" /\ Len(constraints) = 3
    /\ ParseExpr(constraints[1]).kind = "point"
    /\ ParseExpr(constraints[2]).kind = "range" /\ ParseExpr(constraints[2]).begin = None
    /\ ParseExpr(constraints[3]).kind = "range" /\ ParseExpr(constraints[3]).end = None
    /\ ~ParseExpr(constraints[3]).begin[2]

\* C15 as stated: every == specifier of the input has its point [v] in the
\* output.  Fails: an == processed while a lower bound is pending without an
\* upper bound appends nothing.
C15_EveryEqualityHasPoint ==
    cpc = "done" =>
        \A i \in DOMAIN specs :
            specs[i][1] = "==" => \E j \in DOMAIN constraints : constraints[j] = Point(specs[i][2])

\* C15 amended: an == specifier appends its point [v] unless a lower bound is
\* pending without an upper bound when it is processed; then it appends
\* nothing and leaves the pending bound as it is.  With both bounds pending
\* the range is flushed first, with only an upper bound pending the point is
\* appended and the upper bound stays pending.
C15_PointUnlessLowerBoundOpen ==
    [][(cpc = "loop" /\ todo # <<>> /\ todo' # todo /\ Head(todo)[1] = "==") =>
          IF Truthy(begin) /\ ~Truthy(end)
          THEN constraints' = constraints /\ begin' = begin /\ end' = end
          ELSE /\ Len(NewExprs) = (IF Truthy(begin) THEN 2 ELSE 1)
               /\ NewExprs[Len(NewExprs)] = Point(Head(todo)[2])
               /\ begin' = None
               /\ end' = (IF Truthy(begin) THEN None ELSE end)
      ]_vars

\* of two == specifiers one was processed with nothing pending and gave its
\* point, the other was processed behind a lone lower bound and gave nothing
C15_Witness ==
    /\ cpc = "done" /\ Len(specs) = 3
    /\ Cardinality({ i \in DOMAIN specs : specs[i][1] = "==" }) = 2
    /\ Len(constraints) = 2
    /\ ParseExpr(constraints[1]).kind = "point"
    /\ ParseExpr(constraints[2]).kind = "range" /\ ParseExpr(constraints[2]).end = None

\* the loop takes a step on the specifier at the head of todo
Processing(ops) == cpc = "loop" /\ todo # <<>> /\ todo' # todo /\ Head(todo)[1] \in ops

LowerIdx(s) == { i \in DOMAIN s : IsLower(s[i][1]) }

UpperIdx(s) == { i \in DOMAIN s : IsUpper(s[i][1]) }

\* C16: within one unflushed segment the first lower bound and the last upper
\* bound win.  A > or >= met while begin is set and end is empty changes
\* nothing; a < or <= always becomes the pending end; begin is taken only
\* when empty or right after a flush, and pending bounds are dropped only by
\* flushing them.  So specifiers whose lower bounds all sort before their
\* upper bounds give the one range from the first lower to the last upper.
C16_FirstLowerLastUpper ==
    /\ [][/\ (Processing({">", ">="}) /\ Truthy(begin) /\ ~Truthy(end)) =>
                begin' = begin /\ end' = end /\ constraints' = constraints
          /\ Processing({"<", "<="}) =>
                /\ end' = <<Head(todo)[2], Head(todo)[1] = "<=">>
                /\ begin' = begin /\ constraints' = constraints
          /\ (begin' # begin /\ Truthy(begin')) =>
                /\ Processing({">", ">="})
                /\ begin' = <<Head(todo)[2], Head(todo)[1] = ">=">>
                /\ ~Truthy(begin) \/ Len(NewExprs) = 1
          /\ ((Truthy(begin) /\ begin' # begin) \/ (Truthy(end) /\ ~Truthy(end'))) =>
                Len(NewExprs) >= 1 /\ ParseExpr(NewExprs[1]) = PendingRange
         ]_vars
    /\ [](cpc = "done" =>
            LET ss == Sorted(specs) IN
            (/\ LowerIdx(ss) # {} /\ UpperIdx(ss) # {}
             /\ LowerIdx(ss) \cup UpperIdx(ss) = DOMAIN ss
             /\ \A i \in LowerIdx(ss), j \in UpperIdx(ss) : i < j)
            => /\ Len(constraints) = 1
               /\ ParseExpr(constraints[1]) =
                     [kind |-> "range",
                      begin |-> <<ss[1][2], ss[1][1] = ">=">>,
                      end |-> <<ss[Len(ss)][2], ss[Len(ss)][1] = "<=">>])

\* two lower bounds at different versions and an upper bound gave one range,
\* from the lower bound processed first
C16_Witness ==
    /\ cpc = "done" /\ Len(specs) = 3
    /\ Cardinality(LowerIdx(specs)) = 2 /\ Cardinality(UpperIdx(specs)) = 1
    /\ \A i, j \in LowerIdx(specs) : i # j => specs[i][2] # specs[j][2]
    /\ Len(constraints) = 1
    /\ ParseExpr(constraints[1]).begin # None /\ ParseExpr(constraints[1]).end # None
    /\ ParseExpr(constraints[1]).begin[1] = Sorted(specs)[1][2]

\* the lower-bound version of an interval expression, <<>> if it has none
LowerVersion(e) == LET b == ParseExpr(e).begin IN IF b = None THEN <<>> ELSE b[1]

\* C17: the interval expressions of one dependency are in ascending order of
\* their lower-bound versions (a point counts as its own lower bound).
\* Fails for the same reason as C6: the expressions follow the lexical order
\* of the version strings.
C17_AscendingLowerBounds ==
    cpc = "done" =>
        \A i, j \in DOMAIN constraints :
            (i < j /\ LowerVersion(constraints[i]) # <<>> /\ LowerVersion(constraints[j]) # <<>>)
            => ~VersionLess(LowerVersion(constraints[j]), LowerVersion(constraints[i]))

TwoSided(e) == ParseExpr(e).kind = "range" /\ ParseExpr(e).begin # None /\ ParseExpr(e).end # None

\* C20: begin is set only while end is empty (a pending end is flushed before
\* a lower bound is taken), so the pending pair and every two-sided range
\* appended have the lower bound at or before the upper bound in the order the
\* code sorts by.
C20_LowerBoundNotAboveUpper ==
    /\ [][(begin' # begin /\ Truthy(begin')) =>
             (~Truthy(end') /\ (Truthy(end) => Len(NewExprs) = 1))]_vars
    /\ []((Truthy(begin) /\ Truthy(end)) => ~StrLess(end[1], begin[1]))
    /\ [](\A i \in DOMAIN constraints :
             TwoSided(constraints[i]) =>
                 ~StrLess(ParseExpr(constraints[i]).end[1], ParseExpr(constraints[i]).begin[1]))

\* a pending upper bound was flushed when a lower bound arrived, and that
\* lower bound then formed a range with a later upper bound
C20_Witness ==
    /\ cpc = "done" /\ Len(constraints) = 2
    /\ ParseExpr(constraints[1]).kind = "range" /\ ParseExpr(constraints[1]).begin = None
    /\ TwoSided(constraints[2])
    /\ StrLess(ParseExpr(constraints[2]).begin[1], ParseExpr(constraints[2]).end[1])

----------------------------------------------------------------------------
\* Properties of the filter process, continued (Spec)

\* C18: seeding happens only during construction and only when check_old is
\* set; it is over before the first inbound record, forwards nothing, and once
\* left it is never entered again, not by consume and not by the loop of main.
C18_SeedingOnlyAtStartup ==
    /\ [][phase' = "seeding" => (check_old /\ phase \in {"new", "seeding"})]_vars
    /\ [][seeded' # seeded => (phase = "seeding" /\ phase' = "seeding")]_vars
    /\ [][phase = "seeding" => (sent' = sent /\ nrec' = nrec)]_vars
    /\ [](phase \in {"new", "seeding"} => (nrec = 0 /\ sent = <<>>))
    /\ [](~check_old => (seeded = {} /\ phase # "seeding"))

\* the store was seeded, a consume() call served records and forwarded an
\* entry, and it has returned to the loop of main
C18_Witness ==
    /\ check_old /\ seeded # {}
    /\ nrec >= 1 /\ Len(sent) >= 1
    /\ phase = "ready"

\* C19: every pair in the store that seeding did not put there has been sent
\* to the output.  Fails: consume stores the pair before it sends the entry,
\* so a send that raises leaves the pair in the store unsent.
C19_StoredImpliesSent ==
    phase \notin {"new", "seeding"} =>
        \A pv \in PairsOf(packages) \ seeded : \E i \in DOMAIN sent : PairOf(sent[i]) = pv

====
